---- MODULE Spec2Model ----
(***************************************************************************)
(* A model of the blog agent's two tools, save_blog_content and            *)
(* publish_blog_to_github (src/src/blog_agent/tools.py), together with the *)
(* session (artifact store, session state), the process environment and    *)
(* the hosting service the publish workflow talks to.                      *)
(*                                                                         *)
(* Text is modelled by what the code does with it:                         *)
(*   - blog content is a sequence of Unicode code points; the write step   *)
(*     encodes it to UTF-8 bytes and base64-wraps the bytes;               *)
(*   - response bodies, messages and details are sequences of words, and   *)
(*     Python's  needle in text  is a sub-sequence search;                 *)
(*   - paths and URLs are sequences of segments, a "/" join being the      *)
(*     concatenation of the segments.                                      *)
(***************************************************************************)
EXTENDS Integers, Sequences, FiniteSets, TLC

VARIABLES
    artifacts,   \* the session's artifact store: the saved versions of blog_content.md
    state,       \* tool_context.state: title and slug
    env,         \* os.environ: the four variables the tools read
    reliable,    \* whether the hosting service answers as its state dictates
    host,        \* what the reliable hosting service holds: per repository, its
                 \* branches, files and pull requests
    pc,          \* position of the tool call in flight ("idle" when none)
    req,         \* arguments of the publish call in flight
    loc,         \* local variables of the publish call in flight
    calls,       \* hosting calls issued by the publish call in flight, in order
    resps,       \* what each of those calls returned or raised
    result,      \* value returned by the tool call that finished last
    args,        \* arguments of the save call whose result that is
    published,   \* the publish calls that succeeded against the reliable service:
                 \* request, configuration, artifact text and pr_url
    saves,       \* number of save_blog_content calls so far
    publishes,   \* number of publish_blog_to_github calls so far
    running      \* the sub-agent of root_agent that is running; None when the
                 \* tools are called directly, "over" once the last one is done

vars == <<artifacts, state, env, reliable, host, pc, req, loc, calls, resps,
          result, args, published, saves, publishes, running>>

-----------------------------------------------------------------------------
(* Bounds of the model *)

MaxSaves == 2
\* publish calls against a service that answers as its state dictates
MaxPublishes == 2
\* publish calls against a service that may answer anything
MaxUnreliablePublishes == 1

-----------------------------------------------------------------------------
(* Values *)

\* Python's None and a key that a dict does not hold, for string-valued fields
None == "<None>"
Absent == "<absent>"
\* the same two, for word-sequence fields (message, details, response text)
NoneW == <<"<None>">>
AbsentW == <<"<absent>">>

GITHUB_API_URL == <<"https://api.github.com">>
BLOG_ARTIFACT_FILENAME == "blog_content.md"

\* Blog contents the writer may save: code points. They cover the empty text
\* and a text with ASCII, an embedded newline and characters that take 2, 3 and
\* 4 bytes in UTF-8, whose encoding ends in a base64 padding character.
Texts ==
    { <<>>,
      <<35, 10, 233, 8364, 128512>> }

\* the posts the writer saves: a title and its slug
Posts == {<<"Test Blog", "test-blog">>, <<"My First Blog", "my-first-blog">>}
Titles == {p[1] : p \in Posts}
Slugs == {p[2] : p \in Posts}

-----------------------------------------------------------------------------
(* Text operations of the Python runtime the tools rely on *)

\* needle in text  (str.__contains__), on word sequences
Contains(text, needle) ==
    \E i \in 0..(Len(text) - Len(needle)) :
        SubSeq(text, i + 1, i + Len(needle)) = needle

\* one code point as UTF-8 bytes
Utf8Bytes(c) ==
    IF c < 128 THEN <<c>>
    ELSE IF c < 2048 THEN <<192 + (c \div 64), 128 + (c % 64)>>
    ELSE IF c < 65536 THEN
        <<224 + (c \div 4096), 128 + ((c \div 64) % 64), 128 + (c % 64)>>
    ELSE <<240 + (c \div 262144), 128 + ((c \div 4096) % 64),
           128 + ((c \div 64) % 64), 128 + (c % 64)>>

RECURSIVE Utf8Encode(_)
\* str.encode("utf-8")
Utf8Encode(s) ==
    IF s = <<>> THEN <<>> ELSE Utf8Bytes(Head(s)) \o Utf8Encode(Tail(s))

RECURSIVE Utf8Decode(_)
\* bytes.decode("utf-8"), on well-formed input
Utf8Decode(b) ==
    IF b = <<>> THEN <<>>
    ELSE IF b[1] < 128 THEN <<b[1]>> \o Utf8Decode(SubSeq(b, 2, Len(b)))
    ELSE IF b[1] < 224 THEN
        <<(b[1] - 192) * 64 + (b[2] - 128)>> \o Utf8Decode(SubSeq(b, 3, Len(b)))
    ELSE IF b[1] < 240 THEN
        <<(b[1] - 224) * 4096 + (b[2] - 128) * 64 + (b[3] - 128)>>
            \o Utf8Decode(SubSeq(b, 4, Len(b)))
    ELSE <<(b[1] - 240) * 262144 + (b[2] - 128) * 4096 + (b[3] - 128) * 64
            + (b[4] - 128)>> \o Utf8Decode(SubSeq(b, 5, Len(b)))

\* the base64 alphabet A-Z a-z 0-9 + /  as ASCII codes, and "=" the padding
B64Pad == 61
B64Char(i) ==
    IF i < 26 THEN 65 + i
    ELSE IF i < 52 THEN 97 + (i - 26)
    ELSE IF i < 62 THEN 48 + (i - 52)
    ELSE IF i = 62 THEN 43 ELSE 47

B64Index(ch) == CHOOSE i \in 0..63 : B64Char(i) = ch

RECURSIVE B64Encode(_)
\* base64.b64encode: three bytes become four characters, the tail is padded
B64Encode(b) ==
    IF Len(b) = 0 THEN <<>>
    ELSE IF Len(b) = 1 THEN
        <<B64Char(b[1] \div 4), B64Char((b[1] % 4) * 16), B64Pad, B64Pad>>
    ELSE IF Len(b) = 2 THEN
        <<B64Char(b[1] \div 4), B64Char((b[1] % 4) * 16 + (b[2] \div 16)),
          B64Char((b[2] % 16) * 4), B64Pad>>
    ELSE <<B64Char(b[1] \div 4), B64Char((b[1] % 4) * 16 + (b[2] \div 16)),
           B64Char((b[2] % 16) * 4 + (b[3] \div 64)), B64Char(b[3] % 64)>>
           \o B64Encode(SubSeq(b, 4, Len(b)))

RECURSIVE B64Decode(_)
\* base64.b64decode, on well-formed input
B64Decode(c) ==
    IF Len(c) = 0 THEN <<>>
    ELSE LET i1 == B64Index(c[1])
             i2 == B64Index(c[2])
             rest == B64Decode(SubSeq(c, 5, Len(c)))
         IN  IF c[3] = B64Pad THEN <<i1 * 4 + (i2 \div 16)>>
             ELSE IF c[4] = B64Pad THEN
                 <<i1 * 4 + (i2 \div 16), (i2 % 16) * 16 + (B64Index(c[3]) \div 4)>>
             ELSE <<i1 * 4 + (i2 \div 16),
                    (i2 % 16) * 16 + (B64Index(c[3]) \div 4),
                    (B64Index(c[3]) % 4) * 64 + B64Index(c[4])>> \o rest

\* the encoding with content.encode("ascii", "ignore"), which drops what is not ASCII
EncodeContentAsciiOnly(content) ==
    Utf8Decode(B64Encode(Utf8Encode(SelectSeq(content, LAMBDA c : c < 128))))

\* base64.b64encode(content.encode("utf-8")).decode("utf-8")
EncodeContent(content) == Utf8Decode(B64Encode(Utf8Encode(content)))

\* what a reader of the written file gets back:
\* base64.b64decode(field).decode("utf-8")
DecodeContent(field) == Utf8Decode(B64Decode(Utf8Encode(field)))

-----------------------------------------------------------------------------
(* The process environment and the configuration read from it *)

\* environments the process may run in: the four variables, Absent when unset
EnvConfigs ==
    { [token |-> "tok", owner |-> Absent, repo |-> Absent, path |-> AbsentW],
      [token |-> Absent, owner |-> Absent, repo |-> Absent, path |-> AbsentW],
      [token |-> "", owner |-> "test-owner", repo |-> "test-repo", path |-> AbsentW],
      [token |-> "tok2", owner |-> "test-owner", repo |-> "test-repo",
       path |-> <<"content", "posts">>] }

\* os.getenv(name, default), for a variable holding a string
GetEnv(e, name, default) ==
    IF e[name] = Absent THEN default ELSE e[name]

\* os.getenv(name, default), for a variable holding a path
GetEnvPath(e, name, default) ==
    IF e[name] = AbsentW THEN default ELSE e[name]

\* _get_repo_config() with another default content path
GetRepoConfigOtherPath(e) ==
    [owner |-> GetEnv(e, "owner", "queryplanner"),
     repo |-> GetEnv(e, "repo", "blogs"),
     content_path |-> GetEnvPath(e, "path", <<"content", "blog">>)]

\* _get_repo_config()
GetRepoConfig(e) ==
    [owner |-> GetEnv(e, "owner", "queryplanner"),
     repo |-> GetEnv(e, "repo", "blogs"),
     content_path |-> GetEnvPath(e, "path", <<"src", "data", "blog">>)]

\* _get_github_headers() testing `token is None` instead of `not token`
GetGithubHeadersNoneOnly(e) ==
    LET token == GetEnv(e, "token", None)
    IN  IF token = None
        THEN [raised |-> TRUE,
              message |-> <<"BLOG_GITHUB_TOKEN", "not", "configured">>,
              details |-> NoneW,
              Authorization |-> None]
        ELSE [raised |-> FALSE,
              message |-> <<>>,
              details |-> NoneW,
              Authorization |-> token]

\* _get_github_headers(): the headers, or the GitHubError it raises
GetGithubHeaders(e) ==
    LET token == GetEnv(e, "token", None)
    IN  IF token = None \/ token = ""
        THEN [raised |-> TRUE,
              message |-> <<"BLOG_GITHUB_TOKEN", "not", "configured">>,
              details |-> NoneW,
              Authorization |-> None]
        ELSE [raised |-> FALSE,
              message |-> <<>>,
              details |-> NoneW,
              Authorization |-> token]

\* the repositories a configuration can address
RepoKeys == { <<GetRepoConfig(e).owner, GetRepoConfig(e).repo>> : e \in EnvConfigs }

-----------------------------------------------------------------------------
(* Arguments of the tool calls *)

BranchNames == {"blog/test", "main"}
FileNames == {"test.md"}

\* the publish requests of the tool-call surface; repo_owner and repo_name are
\* optional there (Absent when the caller omits them)
Requests ==
    { [branch_name |-> b, file_name |-> f,
       commit_message |-> "feat: add test post",
       pr_title |-> "Add test post", pr_body |-> "Body text",
       repo_owner |-> o[1], repo_name |-> o[2]] :
         b \in BranchNames, f \in FileNames,
         o \in {<<Absent, Absent>>, <<"custom-owner", "custom-repo">>} }

NoRequest ==
    [branch_name |-> None, file_name |-> None, commit_message |-> None,
     pr_title |-> None, pr_body |-> None, repo_owner |-> Absent, repo_name |-> Absent]

\* the keyword parameters publish_blog_to_github declares besides tool_context
PublishParameters ==
    {"branch_name", "file_name", "commit_message", "pr_title", "pr_body"}

\* Python binds the call's keyword arguments to the declared parameters and
\* raises TypeError for a keyword the function does not declare
BindsPublishCall(r) ==
    \A k \in DOMAIN r : r[k] # Absent => k \in PublishParameters

-----------------------------------------------------------------------------
(* Responses of the hosting service, as the requests library presents them *)

\* a JSON object without keys
EmptyDict == [k \in {} |-> None]

\* dict.get(key, default)
DictGet(d, key, default) == IF key \in DOMAIN d THEN d[key] ELSE default

\* a response: status_code, text, and what json() gives: the decoded body when
\* body = "json", a JSONDecodeError (a RequestException) when body = "notjson"
Response(status, text, json) ==
    [kind |-> "response", status_code |-> status, text |-> text,
     body |-> "json", json |-> json]

NotJson(status, text) ==
    [kind |-> "response", status_code |-> status, text |-> text,
     body |-> "notjson", json |-> EmptyDict]

\* the call itself raised: a requests.exceptions.RequestException (connection
\* error, timeout) or another exception
Raised(exc) ==
    [kind |-> exc, status_code |-> 0, text |-> <<>>, body |-> "notjson",
     json |-> EmptyDict]

Transport == {Raised("RequestException"), Raised("Exception")}

NotFoundText == <<"Not", "Found">>
ServerErrorText == <<"Server", "Error">>
RefExistsText == <<"Reference", "already", "exists">>
ValidationText == <<"Validation", "Failed">>
PrExistsText == <<"A", "pull", "request", "already", "exists", "for", "head">>
NoCommitsText == <<"Validation", "Failed", "No", "commits", "between">>
ShaMissingText == <<"sha", "wasn't", "supplied">>

BaseSha == "base-sha-123"
PrUrls == {"https://github.com/pr/1"}

\* what an arbitrary (unreliable, mocked or misbehaving) service may answer
RepoResponses ==
    { Response(200, <<>>, [default_branch |-> b]) : b \in {"main", "develop"} }
    \cup { Response(200, <<>>, EmptyDict), NotJson(200, <<>>),
           Response(404, NotFoundText, EmptyDict),
           Response(500, ServerErrorText, EmptyDict) }
    \cup Transport

RefResponses ==
    { Response(200, <<>>, [object |-> [sha |-> BaseSha]]),
      Response(200, <<>>, [object |-> [sha |-> ""]]),
      Response(200, <<>>, [object |-> EmptyDict]),
      Response(200, <<>>, EmptyDict),
      NotJson(200, <<>>),
      Response(404, NotFoundText, EmptyDict) }
    \cup Transport

CreateRefResponses ==
    { Response(201, <<>>, EmptyDict),
      Response(422, RefExistsText, EmptyDict),
      Response(422, ValidationText, EmptyDict),
      Response(404, NotFoundText, EmptyDict) }
    \cup Transport

ProbeResponses ==
    { Response(200, <<>>, [sha |-> "existing_file_sha"]),
      Response(200, <<>>, EmptyDict),
      NotJson(200, <<>>),
      Response(404, NotFoundText, EmptyDict),
      Response(500, ServerErrorText, EmptyDict) }
    \cup Transport

PutResponses ==
    { Response(200, <<>>, EmptyDict),
      Response(201, <<>>, EmptyDict),
      Response(409, <<"Conflict">>, EmptyDict),
      Response(422, ShaMissingText, EmptyDict) }
    \cup Transport

CreatePrResponses ==
    { Response(201, <<>>, [html_url |-> u]) : u \in PrUrls }
    \cup { Response(201, <<>>, EmptyDict),
           NotJson(201, <<>>),
           Response(422, PrExistsText, EmptyDict),
           Response(422, NoCommitsText, EmptyDict),
           Response(403, <<"Forbidden">>, EmptyDict) }
    \cup Transport

ListPrResponses ==
    { Response(200, <<>>, <<[html_url |-> "https://github.com/pr/existing"]>>),
      Response(200, <<>>, <<[html_url |-> "https://github.com/pr/existing"],
                            [html_url |-> "https://github.com/pr/other"]>>),
      Response(200, <<>>, <<EmptyDict>>),
      Response(200, <<>>, <<>>),
      NotJson(200, <<>>),
      Response(500, ServerErrorText, <<>>),
      Response(404, NotFoundText, <<[html_url |-> "https://github.com/pr/existing"]>>) }
    \cup Transport

-----------------------------------------------------------------------------
(* The hosting service: one repository per (owner, name), holding the branches
   created besides the default branch, the files written and the pull requests
   opened.  Its default branch is "main", at BaseSha. *)

Range(f) == { f[i] : i \in DOMAIN f }

EmptyRepo == [branches |-> <<>>, files |-> {}, prs |-> <<>>, writes |-> 0]

HostDefaultBranch == "main"

FileShas == <<"file-sha-1", "file-sha-2", "file-sha-3", "file-sha-4">>
FileSha(n) == IF n \in DOMAIN FileShas THEN FileShas[n] ELSE "file-sha-n"

HostPrUrls == <<"https://github.com/pr/1", "https://github.com/pr/2",
                "https://github.com/pr/3", "https://github.com/pr/4">>
HostPrUrl(n) == IF n \in DOMAIN HostPrUrls THEN HostPrUrls[n] ELSE "https://github.com/pr/n"

HasBranch(h, b) == b = HostDefaultBranch \/ b \in Range(h.branches)

FilesAt(h, branch, path) == { f \in h.files : f.branch = branch /\ f.path = path }

OpenPrs(h, head) == SelectSeq(h.prs, LAMBDA p : p.head = head)

\* GET /repos/{owner}/{repo}
HostRepo(h) == Response(200, <<>>, [default_branch |-> HostDefaultBranch])

\* GET /repos/{owner}/{repo}/git/ref/heads/{branch}
HostRef(h, branch) ==
    IF HasBranch(h, branch)
    THEN Response(200, <<>>, [object |-> [sha |-> BaseSha]])
    ELSE Response(404, NotFoundText, EmptyDict)

\* POST /repos/{owner}/{repo}/git/refs
HostCreateRef(h, branch) ==
    IF HasBranch(h, branch)
    THEN Response(422, RefExistsText, EmptyDict)
    ELSE Response(201, <<>>, EmptyDict)

\* GET /repos/{owner}/{repo}/contents/{path}?ref={branch}
HostProbe(h, branch, path) ==
    IF FilesAt(h, branch, path) # {}
    THEN Response(200, <<>>, [sha |-> (CHOOSE f \in FilesAt(h, branch, path) : TRUE).sha])
    ELSE Response(404, NotFoundText, EmptyDict)

\* PUT /repos/{owner}/{repo}/contents/{path}
HostPut(h, path, json) ==
    IF ~HasBranch(h, json.branch) THEN Response(404, NotFoundText, EmptyDict)
    ELSE IF FilesAt(h, json.branch, path) = {} THEN Response(201, <<>>, EmptyDict)
    ELSE IF "sha" \notin DOMAIN json THEN Response(422, ShaMissingText, EmptyDict)
    ELSE IF json.sha = (CHOOSE f \in FilesAt(h, json.branch, path) : TRUE).sha
         THEN Response(200, <<>>, EmptyDict)
         ELSE Response(409, <<"Conflict">>, EmptyDict)

\* POST /repos/{owner}/{repo}/pulls
HostCreatePr(h, json) ==
    IF json.head = json.base THEN Response(422, NoCommitsText, EmptyDict)
    ELSE IF ~HasBranch(h, json.head) \/ ~HasBranch(h, json.base)
         THEN Response(422, ValidationText, EmptyDict)
    ELSE IF OpenPrs(h, json.head) # <<>> THEN Response(422, PrExistsText, EmptyDict)
    ELSE Response(201, <<>>, [html_url |-> HostPrUrl(Len(h.prs) + 1)])

\* GET /repos/{owner}/{repo}/pulls?head={owner}:{branch}&state=open
HostListPrs(h, owner, params) ==
    IF params.head[1] = owner /\ params.state = "open"
    THEN Response(200, <<>>,
                  [i \in DOMAIN OpenPrs(h, params.head[2]) |->
                      [html_url |-> OpenPrs(h, params.head[2])[i].html_url]])
    ELSE Response(200, <<>>, <<>>)

\* the file path a contents call addresses: what follows
\* https://api.github.com/repos/{owner}/{repo}/contents/
CallPath(call) == SubSeq(call.url, 6, Len(call.url))

\* what the service holds after it answered r to a call: a created ref starts
\* with the default branch's files, a written file gets a fresh sha, a created
\* pull request is recorded with the URL the answer gave
HostAfter(h, call, r) ==
    IF r.kind # "response" THEN h
    ELSE IF call.ep = "create_ref" /\ r.status_code = 201 THEN
        [h EXCEPT !.branches = Append(@, call.json.ref[3]),
                  !.files = @ \cup { [f EXCEPT !.branch = call.json.ref[3]] :
                                        f \in { g \in h.files : g.branch = HostDefaultBranch } }]
    ELSE IF call.ep = "put" /\ r.status_code \in {200, 201} THEN
        [h EXCEPT !.writes = @ + 1,
                  !.files = (@ \ FilesAt(h, call.json.branch, CallPath(call)))
                            \cup { [branch |-> call.json.branch, path |-> CallPath(call),
                                    content |-> call.json.content,
                                    sha |-> FileSha(h.writes + 1)] }]
    ELSE IF call.ep = "create_pr" /\ r.status_code = 201 THEN
        [h EXCEPT !.prs = Append(@, [head |-> call.json.head, base |-> call.json.base,
                                     html_url |-> IF r.body = "json"
                                                  THEN DictGet(r.json, "html_url", None)
                                                  ELSE None])]
    ELSE h

-----------------------------------------------------------------------------
(* The artifact store *)

NoArtifact == [is_none |-> TRUE, text_is_none |-> TRUE, text |-> <<>>]

\* types.Part(text=content)
Part(content) == [is_none |-> FALSE, text_is_none |-> FALSE, text |-> content]

\* tool_context.load_artifact(name) answering with the first version saved
LoadArtifactFirstVersion(store) == IF store = <<>> THEN NoArtifact ELSE store[1]

\* tool_context.load_artifact(name): the most recent version, or None
LoadArtifact(store) == IF store = <<>> THEN NoArtifact ELSE store[Len(store)]

\* a part that carries no text (types.Part.text is Optional)
PartWithoutText == [is_none |-> FALSE, text_is_none |-> TRUE, text |-> <<>>]

\* what load_artifact can hand to the publish call: the stored version, and
\* from an artifact service that is not the session's own, a part without text
LoadAnswers(store) ==
    IF reliable THEN {LoadArtifact(store)}
    ELSE {LoadArtifact(store), PartWithoutText}

-----------------------------------------------------------------------------
(* Results of the tools *)

NoResult ==
    [tool |-> "none", status |-> Absent, message |-> AbsentW, details |-> AbsentW,
     pr_url |-> Absent, branch |-> Absent, file_path |-> AbsentW,
     title |-> Absent, slug |-> Absent, version |-> -1]

\* {"status": "error", "message": message, "details": details}
ErrorResult(message, details) ==
    [NoResult EXCEPT !.tool = "publish", !.status = "error",
                     !.message = message, !.details = details]

StatusStrs ==
    [n \in {200, 201, 403, 404, 409, 422, 500} |->
        CASE n = 200 -> "200" [] n = 201 -> "201" [] n = 403 -> "403"
          [] n = 404 -> "404" [] n = 409 -> "409" [] n = 422 -> "422"
          [] n = 500 -> "500"]

\* f"{resp.status_code}"
StatusStr(n) == IF n \in DOMAIN StatusStrs THEN StatusStrs[n] ELSE "status"

\* str(e) of the exception a call raised
ExcText(kind) ==
    IF kind = "RequestException" THEN <<"Connection", "error">> ELSE <<"Boom">>

\* lines 282-301 without the clause for requests' exceptions (lines 288-294)
HandleExceptionNoNetworkClause(kind, message, details) ==
    IF kind = "GitHubError" THEN ErrorResult(message, details)
    ELSE ErrorResult(<<"An", "unexpected", "error", "occurred">>, ExcText(kind))

\* the three except clauses of publish_blog_to_github
HandleException(kind, message, details) ==
    IF kind = "GitHubError" THEN ErrorResult(message, details)
    ELSE IF kind = "RequestException" THEN
        ErrorResult(<<"Network", "error", "while", "communicating", "with", "GitHub">>,
                    ExcText(kind))
    ELSE ErrorResult(<<"An", "unexpected", "error", "occurred">>, ExcText(kind))

\* the exception, if any, that reading a response's JSON body raises:
\* the call's own exception, or the JSONDecodeError of json()
JsonRaises(r) ==
    IF r.kind # "response" THEN r.kind
    ELSE IF r.body = "notjson" THEN "RequestException"
    ELSE "none"

NoLocals ==
    [load |-> "pending", artifact |-> NoArtifact,
     content |-> <<>>, repo_owner |-> None, repo_name |-> None,
     content_path |-> <<>>, full_file_path |-> <<>>, Authorization |-> None,
     default_branch |-> None, base_sha |-> None, file_sha |-> None, pr_url |-> None]

\* base_url = f"{GITHUB_API_URL}/repos/{repo_owner}/{repo_name}"
BaseUrl(l) == GITHUB_API_URL \o <<"repos", l.repo_owner, l.repo_name>>

\* headers=headers, timeout=30 of every call
Call(ep, method, url, params, json) ==
    [ep |-> ep, method |-> method, url |-> url,
     Authorization |-> loc.Authorization, timeout |-> 30,
     params |-> params, json |-> json]

\* the repository the call in flight addresses
Repo == <<loc.repo_owner, loc.repo_name>>

\* the answers a call may get: the one the service's state dictates, or, from
\* an unreliable service, any of the endpoint's answers
Answers(faithful, any) == IF reliable THEN {faithful} ELSE any

NoCallInFlight == pc \in {"idle", "done", "raised"}

\* the record of a publish call that returned res
Finished(rq, l, res) ==
    [req |-> rq, env |-> env, repo |-> <<l.repo_owner, l.repo_name>>,
     path |-> l.full_file_path, content |-> l.content, pr_url |-> res.pr_url]

\* where a step leaves the call: at the next step, or returned
Goto(next, l) == [pc |-> next, loc |-> l, result |-> NoResult]
Done(l, res) == [pc |-> "done", loc |-> l, result |-> res]

-----------------------------------------------------------------------------
(* save_blog_content *)

NoArgs == [content |-> <<>>, title |-> Absent, slug |-> Absent]

\* lines 86-91: the success result
SaveResult(version, title, slug) ==
    [NoResult EXCEPT !.tool = "save", !.status = "success",
                     !.message = <<"Blog", "content", "saved", "successfully">>,
                     !.version = version, !.title = title, !.slug = slug]

\* lines 93-98: the result when save_artifact raised
SaveFailure ==
    [NoResult EXCEPT !.tool = "save", !.status = "error",
                     !.message = <<"Failed", "to", "save", "blog", "content", ":",
                                   "Artifact", "service", "down">>]

\* lines 76-98 with the session state written before the artifact is saved
AfterSaveStateFirst(store, st, content, title, slug, stored) ==
    IF stored
    THEN [artifacts |-> Append(store, Part(content)),
          state |-> [st EXCEPT !.title = title, !.slug = slug],
          result |-> SaveResult(Len(store), title, slug)]
    ELSE [artifacts |-> store,
          state |-> [st EXCEPT !.title = title, !.slug = slug],
          result |-> SaveFailure]

\* lines 76-98: what a save call leaves and returns; stored is whether
\* save_artifact returned, rather than raised
AfterSave(store, st, content, title, slug, stored) ==
    IF stored
    THEN [artifacts |-> Append(store, Part(content)),
          state |-> [st EXCEPT !.title = title, !.slug = slug],
          result |-> SaveResult(Len(store), title, slug)]
    ELSE [artifacts |-> store, state |-> st, result |-> SaveFailure]

-----------------------------------------------------------------------------
(* publish_blog_to_github, step by step: what the code does with each answer *)

\* lines 128-147 with the token read before the artifact is looked at
AfterLoadTokenFirst(artifact, e, rq) ==
    LET cfg == GetRepoConfig(e)
        hdr == GetGithubHeaders(e)
        l == [NoLocals EXCEPT !.load = "returned",
                              !.artifact = artifact,
                              !.repo_owner = cfg.owner,
                              !.repo_name = cfg.repo,
                              !.content_path = cfg.content_path,
                              !.full_file_path = cfg.content_path \o <<rq.file_name>>,
                              !.Authorization = hdr.Authorization]
    IN  IF hdr.raised
        THEN Done(l, HandleException("GitHubError", hdr.message, hdr.details))
        ELSE IF artifact.is_none \/ artifact.text_is_none
        THEN Done(l, ErrorResult(<<"No", "blog", "content", "found", ".",
                                   "Writer", "must", "save", "first", ".">>, AbsentW))
        ELSE Goto("repo", [l EXCEPT !.content = artifact.text])

\* lines 128-147 with "not artifact.text" in place of "artifact.text is None"
AfterLoadEmptyIsMissing(artifact, e, rq) ==
    IF artifact.is_none \/ artifact.text_is_none \/ artifact.text = <<>>
    THEN Done([NoLocals EXCEPT !.load = "returned", !.artifact = artifact],
              ErrorResult(<<"No", "blog", "content", "found", ".",
                            "Writer", "must", "save", "first", ".">>, AbsentW))
    ELSE LET cfg == GetRepoConfig(e)
             hdr == GetGithubHeaders(e)
             l == [NoLocals EXCEPT !.load = "returned",
                                   !.artifact = artifact,
                                   !.content = artifact.text,
                                   !.repo_owner = cfg.owner,
                                   !.repo_name = cfg.repo,
                                   !.content_path = cfg.content_path,
                                   !.full_file_path = cfg.content_path \o <<rq.file_name>>,
                                   !.Authorization = hdr.Authorization]
         IN  IF hdr.raised
             THEN Done(l, HandleException("GitHubError", hdr.message, hdr.details))
             ELSE Goto("repo", l)

\* lines 128-147 without the check of the artifact
AfterLoadUnchecked(artifact, e, rq) ==
    LET cfg == GetRepoConfig(e)
        hdr == GetGithubHeaders(e)
        l == [NoLocals EXCEPT !.load = "returned",
                              !.artifact = artifact,
                              !.content = artifact.text,
                              !.repo_owner = cfg.owner,
                              !.repo_name = cfg.repo,
                              !.content_path = cfg.content_path,
                              !.full_file_path = cfg.content_path \o <<rq.file_name>>,
                              !.Authorization = hdr.Authorization]
    IN  IF hdr.raised
        THEN Done(l, HandleException("GitHubError", hdr.message, hdr.details))
        ELSE Goto("repo", l)

\* lines 128-147: the loaded artifact, then the configuration and the headers
AfterLoad(artifact, e, rq) ==
    IF artifact.is_none \/ artifact.text_is_none
    THEN Done([NoLocals EXCEPT !.load = "returned", !.artifact = artifact],
              ErrorResult(<<"No", "blog", "content", "found", ".",
                            "Writer", "must", "save", "first", ".">>, AbsentW))
    ELSE LET cfg == GetRepoConfig(e)
             hdr == GetGithubHeaders(e)
             l == [NoLocals EXCEPT !.load = "returned",
                                   !.artifact = artifact,
                                   !.content = artifact.text,
                                   !.repo_owner = cfg.owner,
                                   !.repo_name = cfg.repo,
                                   !.content_path = cfg.content_path,
                                   !.full_file_path = cfg.content_path \o <<rq.file_name>>,
                                   !.Authorization = hdr.Authorization]
         IN  IF hdr.raised
             THEN Done(l, HandleException("GitHubError", hdr.message, hdr.details))
             ELSE Goto("repo", l)

\* lines 150-158 with the default branch hardcoded to "main"
AfterRepoHardcodedMain(l, r) ==
    IF r.kind # "response" THEN Done(l, HandleException(r.kind, <<>>, NoneW))
    ELSE IF r.status_code # 200 THEN
        Done(l, ErrorResult(<<"Failed", "to", "fetch", "repo", "info", ":",
                              StatusStr(r.status_code)>>, r.text))
    ELSE IF JsonRaises(r) # "none" THEN
        Done(l, HandleException(JsonRaises(r), <<>>, NoneW))
    ELSE Goto("ref", [l EXCEPT !.default_branch = "main"])

\* lines 150-158 without the check of the status
AfterRepoIgnoresStatus(l, r) ==
    IF r.kind # "response" THEN Done(l, HandleException(r.kind, <<>>, NoneW))
    ELSE IF JsonRaises(r) # "none" THEN
        Done(l, HandleException(JsonRaises(r), <<>>, NoneW))
    ELSE Goto("ref", [l EXCEPT !.default_branch =
                                   DictGet(r.json, "default_branch", "main")])

\* lines 150-158: 1. get the default branch
AfterRepo(l, r) ==
    IF r.kind # "response" THEN Done(l, HandleException(r.kind, <<>>, NoneW))
    ELSE IF r.status_code # 200 THEN
        Done(l, ErrorResult(<<"Failed", "to", "fetch", "repo", "info", ":",
                              StatusStr(r.status_code)>>, r.text))
    ELSE IF JsonRaises(r) # "none" THEN
        Done(l, HandleException(JsonRaises(r), <<>>, NoneW))
    ELSE Goto("ref", [l EXCEPT !.default_branch =
                                   DictGet(r.json, "default_branch", "main")])

\* not base_sha: None or the empty string
Falsy(v) == v = None \/ v = ""

\* lines 161-178 testing `base_sha is None` instead of `not base_sha`
AfterRefNoneOnly(l, r) ==
    IF r.kind # "response" THEN Done(l, HandleException(r.kind, <<>>, NoneW))
    ELSE IF r.status_code # 200 THEN
        Done(l, ErrorResult(<<"Failed", "to", "get", "branch", "ref", ":",
                              StatusStr(r.status_code)>>, r.text))
    ELSE IF JsonRaises(r) # "none" THEN
        Done(l, HandleException(JsonRaises(r), <<>>, NoneW))
    ELSE LET base_sha == DictGet(DictGet(r.json, "object", EmptyDict), "sha", None)
         IN  IF base_sha = None
             THEN Done(l, ErrorResult(<<"Could", "not", "get", "base", "SHA">>, r.text))
             ELSE Goto("create_ref", [l EXCEPT !.base_sha = base_sha])

\* lines 161-178 with the lookup tried a second time when it fails
AfterRefRetryOnce(l, r) ==
    IF r.kind # "response" THEN Done(l, HandleException(r.kind, <<>>, NoneW))
    ELSE IF r.status_code # 200 THEN
        IF Len(calls) < 2
        THEN Goto("ref", l)
        ELSE Done(l, ErrorResult(<<"Failed", "to", "get", "branch", "ref", ":",
                                   StatusStr(r.status_code)>>, r.text))
    ELSE IF JsonRaises(r) # "none" THEN
        Done(l, HandleException(JsonRaises(r), <<>>, NoneW))
    ELSE LET base_sha == DictGet(DictGet(r.json, "object", EmptyDict), "sha", None)
         IN  IF Falsy(base_sha)
             THEN Done(l, ErrorResult(<<"Could", "not", "get", "base", "SHA">>, r.text))
             ELSE Goto("create_ref", [l EXCEPT !.base_sha = base_sha])

\* lines 161-178: 2. get the sha of the default branch
AfterRef(l, r) ==
    IF r.kind # "response" THEN Done(l, HandleException(r.kind, <<>>, NoneW))
    ELSE IF r.status_code # 200 THEN
        Done(l, ErrorResult(<<"Failed", "to", "get", "branch", "ref", ":",
                              StatusStr(r.status_code)>>, r.text))
    ELSE IF JsonRaises(r) # "none" THEN
        Done(l, HandleException(JsonRaises(r), <<>>, NoneW))
    ELSE LET base_sha == DictGet(DictGet(r.json, "object", EmptyDict), "sha", None)
         IN  IF Falsy(base_sha)
             THEN Done(l, ErrorResult(<<"Could", "not", "get", "base", "SHA">>, r.text))
             ELSE Goto("create_ref", [l EXCEPT !.base_sha = base_sha])

\* lines 181-197 going on after every 422, whatever its text
AfterCreateRefAny422(l, r) ==
    IF r.kind # "response" THEN Done(l, HandleException(r.kind, <<>>, NoneW))
    ELSE IF r.status_code = 422 THEN Goto("probe", l)
    ELSE IF r.status_code # 201 THEN
        Done(l, ErrorResult(<<"Failed", "to", "create", "branch", ":",
                              StatusStr(r.status_code)>>, r.text))
    ELSE Goto("probe", l)

\* lines 181-197 taking every answer but 201 for a failure
AfterCreateRefStrict(l, r) ==
    IF r.kind # "response" THEN Done(l, HandleException(r.kind, <<>>, NoneW))
    ELSE IF r.status_code # 201 THEN
        Done(l, ErrorResult(<<"Failed", "to", "create", "branch", ":",
                              StatusStr(r.status_code)>>, r.text))
    ELSE Goto("probe", l)

\* lines 181-197 comparing the text with "already exists" instead of searching it
AfterCreateRefExactText(l, r) ==
    IF r.kind # "response" THEN Done(l, HandleException(r.kind, <<>>, NoneW))
    ELSE IF r.status_code = 422 /\ r.text = <<"already", "exists">>
        THEN Goto("probe", l)
    ELSE IF r.status_code # 201 THEN
        Done(l, ErrorResult(<<"Failed", "to", "create", "branch", ":",
                              StatusStr(r.status_code)>>, r.text))
    ELSE Goto("probe", l)

\* lines 181-197: 3. create the new branch
AfterCreateRef(l, r) ==
    IF r.kind # "response" THEN Done(l, HandleException(r.kind, <<>>, NoneW))
    ELSE IF r.status_code = 422 /\ Contains(r.text, <<"already", "exists">>)
        THEN Goto("probe", l)
    ELSE IF r.status_code # 201 THEN
        Done(l, ErrorResult(<<"Failed", "to", "create", "branch", ":",
                              StatusStr(r.status_code)>>, r.text))
    ELSE Goto("probe", l)

\* lines 200-208 taking every status but 200 and 404 for a failure
AfterProbeStrict(l, r) ==
    IF r.kind # "response" THEN Done(l, HandleException(r.kind, <<>>, NoneW))
    ELSE IF r.status_code = 200 THEN
        IF JsonRaises(r) # "none"
        THEN Done(l, HandleException(JsonRaises(r), <<>>, NoneW))
        ELSE Goto("put", [l EXCEPT !.file_sha = DictGet(r.json, "sha", None)])
    ELSE IF r.status_code = 404 THEN Goto("put", [l EXCEPT !.file_sha = None])
    ELSE Done(l, ErrorResult(<<"Failed", "to", "check", "file", ":",
                               StatusStr(r.status_code)>>, r.text))

\* lines 200-208: 4. look for the file to get its sha
AfterProbe(l, r) ==
    IF r.kind # "response" THEN Done(l, HandleException(r.kind, <<>>, NoneW))
    ELSE IF r.status_code = 200 THEN
        IF JsonRaises(r) # "none"
        THEN Done(l, HandleException(JsonRaises(r), <<>>, NoneW))
        ELSE Goto("put", [l EXCEPT !.file_sha = DictGet(r.json, "sha", None)])
    ELSE Goto("put", [l EXCEPT !.file_sha = None])

\* lines 211-217 with the file committed to the default branch
FileDataOnDefaultBranch(l, rq) ==
    IF Falsy(l.file_sha)
    THEN [message |-> rq.commit_message, content |-> EncodeContent(l.content),
          branch |-> l.default_branch]
    ELSE [message |-> rq.commit_message, content |-> EncodeContent(l.content),
          branch |-> l.default_branch, sha |-> l.file_sha]

\* lines 211-217: the body of the file write
FileData(l, rq) ==
    IF Falsy(l.file_sha)
    THEN [message |-> rq.commit_message, content |-> EncodeContent(l.content),
          branch |-> rq.branch_name]
    ELSE [message |-> rq.commit_message, content |-> EncodeContent(l.content),
          branch |-> rq.branch_name, sha |-> l.file_sha]

\* lines 219-230 taking a 409 conflict for a written file
AfterPutTolerates409(l, r) ==
    IF r.kind # "response" THEN Done(l, HandleException(r.kind, <<>>, NoneW))
    ELSE IF r.status_code \notin {200, 201, 409} THEN
        Done(l, ErrorResult(<<"Failed", "to", "create", "file", ":",
                              StatusStr(r.status_code)>>, r.text))
    ELSE Goto("create_pr", l)

\* lines 219-230 without the check of the status
AfterPutIgnoresStatus(l, r) ==
    IF r.kind # "response" THEN Done(l, HandleException(r.kind, <<>>, NoneW))
    ELSE Goto("create_pr", l)

\* lines 219-230: 5. create or update the file
AfterPut(l, r) ==
    IF r.kind # "response" THEN Done(l, HandleException(r.kind, <<>>, NoneW))
    ELSE IF r.status_code \notin {200, 201} THEN
        Done(l, ErrorResult(<<"Failed", "to", "create", "file", ":",
                              StatusStr(r.status_code)>>, r.text))
    ELSE Goto("create_pr", l)

\* lines 274-280 reporting the base branch of the pull request as the branch
SuccessResultBaseBranch(l, rq, pr_url) ==
    [NoResult EXCEPT !.tool = "publish", !.status = "success",
                     !.message = <<"Blog", "post", "published", "successfully">>,
                     !.pr_url = pr_url, !.branch = l.default_branch,
                     !.file_path = l.full_file_path]

\* lines 274-280: the success result
SuccessResult(l, rq, pr_url) ==
    [NoResult EXCEPT !.tool = "publish", !.status = "success",
                     !.message = <<"Blog", "post", "published", "successfully">>,
                     !.pr_url = pr_url, !.branch = rq.branch_name,
                     !.file_path = l.full_file_path]

\* lines 245-270 looking the pull request up after any 422
AfterCreatePrAny422(l, rq, r) ==
    IF r.kind # "response" THEN Done(l, HandleException(r.kind, <<>>, NoneW))
    ELSE IF r.status_code = 201 THEN
        IF JsonRaises(r) # "none"
        THEN Done(l, HandleException(JsonRaises(r), <<>>, NoneW))
        ELSE LET pr_url == DictGet(r.json, "html_url", None)
             IN  Done([l EXCEPT !.pr_url = pr_url], SuccessResult(l, rq, pr_url))
    ELSE IF r.status_code = 422 THEN Goto("list_prs", l)
    ELSE Done(l, ErrorResult(<<"Failed", "to", "create", "PR", ":",
                               StatusStr(r.status_code)>>, r.text))

\* lines 233-248, 265-280: 6. create the pull request
AfterCreatePr(l, rq, r) ==
    IF r.kind # "response" THEN Done(l, HandleException(r.kind, <<>>, NoneW))
    ELSE IF r.status_code = 201 THEN
        IF JsonRaises(r) # "none"
        THEN Done(l, HandleException(JsonRaises(r), <<>>, NoneW))
        ELSE LET pr_url == DictGet(r.json, "html_url", None)
             IN  Done([l EXCEPT !.pr_url = pr_url], SuccessResult(l, rq, pr_url))
    ELSE IF r.status_code = 422
            /\ Contains(r.text, <<"A", "pull", "request", "already", "exists">>)
        THEN Goto("list_prs", l)
    ELSE Done(l, ErrorResult(<<"Failed", "to", "create", "PR", ":",
                               StatusStr(r.status_code)>>, r.text))

\* lines 249-264 taking the last entry of the list instead of the first
AfterListPrsLast(l, rq, resp, r) ==
    IF r.kind # "response" THEN Done(l, HandleException(r.kind, <<>>, NoneW))
    ELSE IF r.status_code = 200 /\ JsonRaises(r) # "none" THEN
        Done(l, HandleException(JsonRaises(r), <<>>, NoneW))
    ELSE IF r.status_code = 200 /\ Len(r.json) > 0 THEN
        LET pr_url == DictGet(r.json[Len(r.json)], "html_url", None)
        IN  Done([l EXCEPT !.pr_url = pr_url], SuccessResult(l, rq, pr_url))
    ELSE Done(l, ErrorResult(<<"PR", "already", "exists", "but", "could", "not",
                               "find", "its", "URL">>, resp.text))

\* lines 249-264, 272-280: find the existing pull request; resp is the answer
\* to the create call
AfterListPrs(l, rq, resp, r) ==
    IF r.kind # "response" THEN Done(l, HandleException(r.kind, <<>>, NoneW))
    ELSE IF r.status_code = 200 /\ JsonRaises(r) # "none" THEN
        Done(l, HandleException(JsonRaises(r), <<>>, NoneW))
    ELSE IF r.status_code = 200 /\ Len(r.json) > 0 THEN
        LET pr_url == DictGet(r.json[1], "html_url", None)
        IN  Done([l EXCEPT !.pr_url = pr_url], SuccessResult(l, rq, pr_url))
    ELSE Done(l, ErrorResult(<<"PR", "already", "exists", "but", "could", "not",
                               "find", "its", "URL">>, resp.text))

-----------------------------------------------------------------------------
(* Agents *)

\* root_agent = SequentialAgent(sub_agents=[blog_writer_agent, blog_publisher_agent])
sub_agents == <<"blog_writer", "blog_publisher">>

\* both sub-agents hand a tool to both stages
ToolsShared(agent) ==
    IF agent \in {"blog_writer", "blog_publisher"}
    THEN {"save_blog_content", "publish_blog_to_github"}
    ELSE {}

\* the tools= lists of the two LlmAgents
Tools(agent) ==
    IF agent = "blog_writer" THEN {"save_blog_content"}
    ELSE IF agent = "blog_publisher" THEN {"publish_blog_to_github"}
    ELSE {}

\* a tool can be called directly, or by the running sub-agent that has it
Callable(tool) == running = None \/ tool \in Tools(running)

-----------------------------------------------------------------------------
(* Initial state *)

\* a session as the runner creates it: no artifact, empty state
InitSession ==
    /\ artifacts = <<>>
    /\ state = [title |-> Absent, slug |-> Absent]
    /\ env \in EnvConfigs
    /\ reliable \in BOOLEAN
    /\ host = [k \in RepoKeys |-> EmptyRepo]
    /\ pc = "idle"
    /\ req = NoRequest
    /\ loc = NoLocals
    /\ calls = <<>>
    /\ resps = <<>>
    /\ result = NoResult
    /\ args = NoArgs
    /\ published = {}
    /\ saves = 0
    /\ publishes = 0

\* the tools called directly on a session, as the unit tests call them
Init == InitSession /\ running = None

\* a run of root_agent: its first sub-agent is running
PipelineInit == InitSession /\ running = sub_agents[1]

-----------------------------------------------------------------------------
(* Actions *)

\* nothing is left of a tool call once its result has been taken
NoFrame ==
    /\ pc' = "idle"
    /\ req' = NoRequest
    /\ loc' = NoLocals
    /\ calls' = <<>>
    /\ resps' = <<>>

\* the operator changes the environment between tool calls
SetEnv ==
    /\ NoCallInFlight
    /\ \E e \in EnvConfigs \ {env} : env' = e
    /\ NoFrame
    /\ result' = NoResult
    /\ args' = NoArgs
    /\ UNCHANGED <<artifacts, state, reliable, host, published, saves, publishes, running>>

\* save_blog_content(tool_context, content, title, slug), lines 54-98
SaveBlogContent ==
    /\ Callable("save_blog_content")
    /\ NoCallInFlight
    /\ saves < MaxSaves
    /\ saves' = saves + 1
    /\ \E content \in Texts, post \in Posts,
          stored \in (IF reliable THEN {TRUE} ELSE BOOLEAN) :
          LET o == AfterSave(artifacts, state, content, post[1], post[2], stored)
          IN  /\ artifacts' = o.artifacts
              /\ state' = o.state
              /\ result' = o.result
              /\ args' = [content |-> content, title |-> post[1], slug |-> post[2]]
    /\ NoFrame
    /\ UNCHANGED <<env, reliable, host, published, publishes, running>>

\* a step of the publish call leaves it at o; a call that succeeds against the
\* reliable service is recorded
Advance(o) ==
    /\ pc' = o.pc
    /\ loc' = o.loc
    /\ result' = o.result
    /\ published' = IF reliable /\ o.pc = "done" /\ o.result.status = "success"
                    THEN published \cup {Finished(req, o.loc, o.result)}
                    ELSE published

\* a hosting call is issued and answered; the reliable service keeps what the
\* call created (the answers of the other do not depend on what it holds)
Issue(call, r) ==
    /\ calls' = Append(calls, call)
    /\ resps' = Append(resps, r)
    /\ host' = IF reliable THEN [host EXCEPT ![Repo] = HostAfter(@, call, r)] ELSE host

\* the agent runtime calls publish_blog_to_github(tool_context, **r), lines 101-108
PublishCall ==
    /\ Callable("publish_blog_to_github")
    /\ NoCallInFlight
    /\ publishes < (IF reliable THEN MaxPublishes ELSE MaxUnreliablePublishes)
    /\ publishes' = publishes + 1
    /\ \E r \in Requests :
        /\ req' = r
        /\ pc' = IF BindsPublishCall(r) THEN "load" ELSE "raised"
    /\ loc' = NoLocals
    /\ calls' = <<>>
    /\ resps' = <<>>
    /\ result' = NoResult
    /\ args' = NoArgs
    /\ UNCHANGED <<artifacts, state, env, reliable, host, published, saves, running>>

\* lines 128-147 with the configuration of an earlier successful call kept
\* in place of a fresh read of the environment
LoadCachedConfiguration ==
    /\ pc = "load"
    /\ LET e == IF published = {} THEN env
                ELSE (CHOOSE s \in published : TRUE).env
       IN  \E loaded \in (IF reliable THEN {TRUE} ELSE BOOLEAN),
              artifact \in LoadAnswers(artifacts) :
              Advance(IF loaded
                      THEN AfterLoad(artifact, e, req)
                      ELSE Done([NoLocals EXCEPT !.load = "raised"],
                                HandleException("Exception", <<>>, NoneW)))
    /\ UNCHANGED <<artifacts, state, env, reliable, host, req, calls, resps,
                   args, saves, publishes, running>>

\* lines 128-147 with a load that takes the artifact out of the store
LoadConsuming ==
    /\ pc = "load"
    /\ \E loaded \in (IF reliable THEN {TRUE} ELSE BOOLEAN),
          artifact \in LoadAnswers(artifacts) :
          Advance(IF loaded
                  THEN AfterLoad(artifact, env, req)
                  ELSE Done([NoLocals EXCEPT !.load = "raised"],
                            HandleException("Exception", <<>>, NoneW)))
    /\ artifacts' = <<>>
    /\ UNCHANGED <<state, env, reliable, host, req, calls, resps,
                   args, saves, publishes, running>>

\* lines 128-147: await load_artifact, read the configuration and the token
Load ==
    /\ pc = "load"
    /\ \E loaded \in (IF reliable THEN {TRUE} ELSE BOOLEAN),
          artifact \in LoadAnswers(artifacts) :
          Advance(IF loaded
                  THEN AfterLoad(artifact, env, req)
                  ELSE Done([NoLocals EXCEPT !.load = "raised"],
                            HandleException("Exception", <<>>, NoneW)))
    /\ UNCHANGED <<artifacts, state, env, reliable, host, req, calls, resps,
                   args, saves, publishes, running>>

\* lines 150-158
GetRepo ==
    /\ pc = "repo"
    /\ LET call == Call("repo", "GET", BaseUrl(loc), EmptyDict, EmptyDict)
       IN  \E r \in Answers(HostRepo(host[Repo]), RepoResponses) :
              Issue(call, r) /\ Advance(AfterRepo(loc, r))
    /\ UNCHANGED <<artifacts, state, env, reliable, req, args, saves, publishes, running>>

\* lines 161-178
GetRef ==
    /\ pc = "ref"
    /\ LET call == Call("ref", "GET",
                        BaseUrl(loc) \o <<"git", "ref", "heads", loc.default_branch>>,
                        EmptyDict, EmptyDict)
       IN  \E r \in Answers(HostRef(host[Repo], loc.default_branch), RefResponses) :
              Issue(call, r) /\ Advance(AfterRef(loc, r))
    /\ UNCHANGED <<artifacts, state, env, reliable, req, args, saves, publishes, running>>

\* lines 181-197
CreateRef ==
    /\ pc = "create_ref"
    /\ LET call == Call("create_ref", "POST", BaseUrl(loc) \o <<"git", "refs">>,
                        EmptyDict,
                        [ref |-> <<"refs", "heads", req.branch_name>>,
                         sha |-> loc.base_sha])
       IN  \E r \in Answers(HostCreateRef(host[Repo], req.branch_name),
                            CreateRefResponses) :
              Issue(call, r) /\ Advance(AfterCreateRef(loc, r))
    /\ UNCHANGED <<artifacts, state, env, reliable, req, args, saves, publishes, running>>

\* lines 200-208
ProbeFile ==
    /\ pc = "probe"
    /\ LET call == Call("probe", "GET",
                        BaseUrl(loc) \o <<"contents">> \o loc.full_file_path,
                        [ref |-> req.branch_name], EmptyDict)
       IN  \E r \in Answers(HostProbe(host[Repo], req.branch_name, loc.full_file_path),
                            ProbeResponses) :
              Issue(call, r) /\ Advance(AfterProbe(loc, r))
    /\ UNCHANGED <<artifacts, state, env, reliable, req, args, saves, publishes, running>>

\* lines 211-230
PutFile ==
    /\ pc = "put"
    /\ LET call == Call("put", "PUT",
                        BaseUrl(loc) \o <<"contents">> \o loc.full_file_path,
                        EmptyDict, FileData(loc, req))
       IN  \E r \in Answers(HostPut(host[Repo], loc.full_file_path, FileData(loc, req)),
                            PutResponses) :
              Issue(call, r) /\ Advance(AfterPut(loc, r))
    /\ UNCHANGED <<artifacts, state, env, reliable, req, args, saves, publishes, running>>

\* lines 233-280 with the written file deleted when the pull request fails
CreatePrRollingBack ==
    /\ pc = "create_pr"
    /\ LET json == [title |-> req.pr_title, body |-> req.pr_body,
                    head |-> req.branch_name, base |-> loc.default_branch]
           call == Call("create_pr", "POST", BaseUrl(loc) \o <<"pulls">>,
                        EmptyDict, json)
           undo == Call("delete", "DELETE",
                        BaseUrl(loc) \o <<"contents">> \o loc.full_file_path,
                        EmptyDict, [branch |-> req.branch_name])
       IN  \E r \in Answers(HostCreatePr(host[Repo], json), CreatePrResponses) :
              LET o == AfterCreatePr(loc, req, r)
              IN  /\ Advance(o)
                  /\ IF o.pc = "done" /\ o.result.status = "error"
                     THEN /\ calls' = calls \o <<call, undo>>
                          /\ resps' = resps \o <<r, Response(200, <<>>, EmptyDict)>>
                          /\ host' = IF reliable
                                     THEN [host EXCEPT ![Repo].files =
                                              @ \ FilesAt(host[Repo], req.branch_name,
                                                          loc.full_file_path)]
                                     ELSE host
                     ELSE Issue(call, r)
    /\ UNCHANGED <<artifacts, state, env, reliable, req, args, saves, publishes, running>>

\* lines 233-248, 265-280
CreatePr ==
    /\ pc = "create_pr"
    /\ LET json == [title |-> req.pr_title, body |-> req.pr_body,
                    head |-> req.branch_name, base |-> loc.default_branch]
           call == Call("create_pr", "POST", BaseUrl(loc) \o <<"pulls">>,
                        EmptyDict, json)
       IN  \E r \in Answers(HostCreatePr(host[Repo], json), CreatePrResponses) :
              Issue(call, r) /\ Advance(AfterCreatePr(loc, req, r))
    /\ UNCHANGED <<artifacts, state, env, reliable, req, args, saves, publishes, running>>

\* lines 249-264
ListPrs ==
    /\ pc = "list_prs"
    /\ LET params == [head |-> <<loc.repo_owner, req.branch_name>>, state |-> "open"]
           call == Call("list_prs", "GET", BaseUrl(loc) \o <<"pulls">>,
                        params, EmptyDict)
       IN  \E r \in Answers(HostListPrs(host[Repo], loc.repo_owner, params),
                            ListPrResponses) :
              Issue(call, r) /\ Advance(AfterListPrs(loc, req, resps[Len(resps)], r))
    /\ UNCHANGED <<artifacts, state, env, reliable, req, args, saves, publishes, running>>

Next ==
    \/ SetEnv
    \/ SaveBlogContent
    \/ PublishCall
    \/ Load
    \/ GetRepo
    \/ GetRef
    \/ CreateRef
    \/ ProbeFile
    \/ PutFile
    \/ CreatePr
    \/ ListPrs

Spec == Init /\ [][Next]_vars

\* SequentialAgent: the running sub-agent ends, with no tool call in flight,
\* and the next one of sub_agents starts; after the last one the run is over
NextSubAgent ==
    /\ running \in Range(sub_agents)
    /\ NoCallInFlight
    /\ LET i == CHOOSE k \in DOMAIN sub_agents : sub_agents[k] = running
       IN  running' = IF i < Len(sub_agents) THEN sub_agents[i + 1] ELSE "over"
    /\ UNCHANGED <<artifacts, state, env, reliable, host, pc, req, loc, calls,
                   resps, result, args, published, saves, publishes>>

PipelineNext == Next \/ NextSubAgent

\* one run of root_agent over a fresh session
PipelineSpec == PipelineInit /\ [][PipelineNext]_vars

\* a step of the publish call in flight
Step ==
    \/ Load
    \/ GetRepo
    \/ GetRef
    \/ CreateRef
    \/ ProbeFile
    \/ PutFile
    \/ CreatePr
    \/ ListPrs

-----------------------------------------------------------------------------
(* Vocabulary of the properties *)

\* the publish call has returned its result
Returned == pc = "done"

\* the hosting calls the publish call has issued to an endpoint
CallsTo(ep) == { i \in DOMAIN calls : calls[i].ep = ep }

\* the endpoints called, in order
Endpoints == [i \in DOMAIN calls |-> calls[i].ep]

\* load_artifact returned a part that has text
ArtifactLoaded ==
    /\ loc.load = "returned"
    /\ ~loc.artifact.is_none
    /\ ~loc.artifact.text_is_none

\* BLOG_GITHUB_TOKEN is unset or empty
TokenMissing == env.token = Absent \/ env.token = ""

\* call i was answered with this status
Status(i, code) == resps[i].kind = "response" /\ resps[i].status_code = code

\* the answer to call i is a conflict whose text holds the words
Conflict(i, words) == Status(i, 422) /\ Contains(resps[i].text, words)

BranchExisted ==
    \E i \in CallsTo("create_ref") : Conflict(i, <<"already", "exists">>)

PrExisted ==
    \E i \in CallsTo("create_pr") :
        Conflict(i, <<"A", "pull", "request", "already", "exists">>)

-----------------------------------------------------------------------------
(* C1 *)

\* call i returned the success status of its endpoint, with a JSON body
SuccessOnFirstAttempt(i) ==
    LET ep == calls[i].ep
        r == resps[i]
    IN  /\ r.kind = "response"
        /\ r.body = "json"
        /\ CASE ep = "repo" -> r.status_code = 200
             [] ep = "ref" ->
                    /\ r.status_code = 200
                    /\ ~Falsy(DictGet(DictGet(r.json, "object", EmptyDict), "sha", None))
             [] ep = "create_ref" -> r.status_code = 201
             [] ep = "probe" -> r.status_code \in {200, 404}
             [] ep = "put" -> r.status_code \in {200, 201}
             [] ep = "create_pr" -> r.status_code = 201
             [] OTHER -> FALSE

\* C1: a publish call with a saved artifact and a configured token, in which
\* every hosting call returns its success status on the first attempt (repo 200,
\* ref 200 with a sha, branch create 201, probe 200 or 404, file write 200 or
\* 201, PR create 201), returns status=success with a pr_url that is not
\* absent, not None and not empty.
C1_AllSuccessGivesPrUrl ==
    ( /\ Returned
      /\ ArtifactLoaded
      /\ ~TokenMissing
      /\ \A i \in DOMAIN calls : SuccessOnFirstAttempt(i) )
    => /\ result.status = "success"
       /\ result.pr_url \notin {Absent, None, ""}

-----------------------------------------------------------------------------
(* C2 *)

\* C2: when load_artifact returns nothing, publish returns status=error with
\* a message containing "No blog content found" and has issued no hosting
\* call, whatever the request and the environment.
C2_NoArtifactNoCalls ==
    (Returned /\ loc.load = "returned" /\ loc.artifact.is_none)
    => /\ result.status = "error"
       /\ Contains(result.message, <<"No", "blog", "content", "found">>)
       /\ calls = <<>>

\* the case of C2 with a token configured, so that only the missing artifact
\* stops the call
C2_Witness ==
    /\ Returned
    /\ loc.load = "returned"
    /\ loc.artifact.is_none
    /\ ~TokenMissing
    /\ result.status = "error"

-----------------------------------------------------------------------------
(* C3 *)

TokenError ==
    /\ result.status = "error"
    /\ Contains(result.message, <<"BLOG_GITHUB_TOKEN", "not", "configured">>)
    /\ calls = <<>>

\* C3 as stated: when the token is absent or empty, publish returns the
\* token-not-configured error and has issued no hosting call.
C3_MissingTokenAlwaysTokenError ==
    (Returned /\ TokenMissing) => TokenError

\* C3 amended: when the token is absent or empty and load_artifact has returned
\* an artifact with text, publish returns the token-not-configured error and
\* has issued no hosting call.
C3_MissingTokenAfterLoad ==
    (Returned /\ TokenMissing /\ ArtifactLoaded) => TokenError

\* an empty token with a saved artifact
C3_Witness ==
    /\ Returned
    /\ env.token = ""
    /\ ArtifactLoaded
    /\ TokenError

-----------------------------------------------------------------------------
(* C4 *)

\* C4: the content field of every file-write call, base64-decoded, is the text
\* of the artifact loaded for that publish call.
C4_WrittenContentIsArtifact ==
    \A i \in CallsTo("put") :
        DecodeContent(calls[i].json.content) = LoadArtifact(artifacts).text

\* a write of text with a newline and a non-ASCII character
C4_Witness ==
    /\ CallsTo("put") # {}
    /\ LoadArtifact(artifacts).text = <<35, 10, 233, 8364, 128512>>
    /\ \A i \in CallsTo("put") :
          calls[i].json.content = <<73, 119, 114, 68, 113, 101, 75, 67,
                                    114, 80, 67, 102, 109, 73, 65, 61>>

-----------------------------------------------------------------------------
(* C5 *)

\* two publish calls with the same request, configuration and artifact
SameCall(a, b) ==
    /\ a.req = b.req
    /\ a.env = b.env
    /\ a.repo = b.repo
    /\ a.path = b.path
    /\ a.content = b.content

\* the number of refs of repository h named b, besides the default branch
BranchCount(h, b) == Cardinality({ k \in DOMAIN h.branches : h.branches[k] = b })

\* C5: against a service that answers 422 "already exists" for an existing ref
\* and 422 "A pull request already exists" for an existing open pull request,
\* once a publish call has succeeded there is exactly one branch named
\* branch_name and exactly one open pull request for it, and every later call
\* with the same request, configuration and artifact returns status=success
\* with the same pr_url.
C5_SafelyRerunnable ==
    reliable =>
        /\ \A s \in published :
              /\ BranchCount(host[s.repo], s.req.branch_name) = 1
              /\ Len(OpenPrs(host[s.repo], s.req.branch_name)) = 1
        /\ Returned =>
              \A s \in published :
                  SameCall(s, Finished(req, loc, result))
                  => /\ result.status = "success"
                     /\ result.pr_url = s.pr_url

\* a successful publish call repeated: the branch and the pull request of the
\* first call are found by the second, which returns the same pr_url
C5_Witness ==
    /\ reliable
    /\ Returned
    /\ BranchExisted
    /\ PrExisted
    /\ result.status = "success"
    /\ \E s \in published :
          SameCall(s, Finished(req, loc, result)) /\ result.pr_url = s.pr_url

-----------------------------------------------------------------------------
(* C6 *)

\* after call i the publish call goes on with a call to endpoint ep
GoesOnWith(i, ep) == IF i = Len(calls) THEN pc = ep ELSE calls[i + 1].ep = ep

\* the body of the answer to call i can be read as JSON
Readable(i) == resps[i].kind = "response" /\ resps[i].body = "json"

\* C6 as stated: a publish call whose branch-create call returned 422 "already
\* exists" has issued, by the time it returns, the file probe, the file write
\* and the PR-create call, in that order.
C6_LaterStepsAlwaysIssued ==
    Returned =>
        \A i \in CallsTo("create_ref") :
            Conflict(i, <<"already", "exists">>)
            => /\ Len(calls) >= i + 3
               /\ SubSeq(Endpoints, i + 1, i + 3) = <<"probe", "put", "create_pr">>

\* C6 amended: after a branch-create call that returned 422 "already exists"
\* the file probe is issued next; the file write follows a probe that returned a
\* response (with a readable body when its status is 200), the PR-create call
\* follows a write that returned 200 or 201, and the result is never the
\* branch-creation error.
C6_ConflictDoesNotAbort ==
    \A i \in CallsTo("create_ref") :
        Conflict(i, <<"already", "exists">>)
        => /\ GoesOnWith(i, "probe")
           /\ (Len(calls) > i /\ resps[i + 1].kind = "response"
                 /\ (Status(i + 1, 200) => Readable(i + 1)))
              => GoesOnWith(i + 1, "put")
           /\ (Len(calls) > i + 1 /\ calls[i + 2].ep = "put"
                 /\ (Status(i + 2, 200) \/ Status(i + 2, 201)))
              => GoesOnWith(i + 2, "create_pr")
           /\ Returned => ~Contains(result.message, <<"Failed", "to", "create", "branch">>)

\* the branch existed and the call went on to a successful result
C6_Witness ==
    /\ Returned
    /\ BranchExisted
    /\ CallsTo("create_pr") # {}
    /\ result.status = "success"

-----------------------------------------------------------------------------
(* C7 *)

\* C7: a publish call whose PR-create call returned 422 "A pull request already
\* exists" issues exactly one list request, a GET of {base_url}/pulls with
\* head=<owner>:<branch_name> and state=open; it returns status=success with the
\* first entry's URL when the lookup returned 200 with a non-empty list, and
\* status=error otherwise.
C7_ExistingPrLookedUpOnce ==
    (Returned /\ PrExisted)
    => /\ Cardinality(CallsTo("list_prs")) = 1
       /\ \A i \in CallsTo("list_prs") :
             /\ calls[i].method = "GET"
             /\ calls[i].url = GITHUB_API_URL
                                 \o <<"repos", GetRepoConfig(env).owner,
                                      GetRepoConfig(env).repo, "pulls">>
             /\ calls[i].params = [head |-> <<GetRepoConfig(env).owner, req.branch_name>>,
                                   state |-> "open"]
             /\ IF Status(i, 200) /\ Readable(i) /\ resps[i].json # <<>>
                THEN /\ result.status = "success"
                     /\ result.pr_url = DictGet(resps[i].json[1], "html_url", None)
                ELSE result.status = "error"

\* the lookup found two open pull requests
C7_Witness ==
    /\ Returned
    /\ PrExisted
    /\ result.status = "success"
    /\ \E i \in CallsTo("list_prs") : Readable(i) /\ Len(resps[i].json) = 2

-----------------------------------------------------------------------------
(* C8 *)

\* the sha the probe answered at call i found, None when it found none
ProbedSha(i) ==
    IF Status(i, 200) /\ Readable(i) THEN DictGet(resps[i].json, "sha", None) ELSE None

\* the write request carries a sha exactly when the probe before it returned
\* 200 with a sha, and then that sha
ShaFollowsProbe ==
    \A i \in CallsTo("put") :
        /\ calls[i - 1].ep = "probe"
        /\ ("sha" \in DOMAIN calls[i].json) <=> ~Falsy(ProbedSha(i - 1))
        /\ "sha" \in DOMAIN calls[i].json => calls[i].json.sha = ProbedSha(i - 1)

\* C8 as stated: the write request carries a sha exactly when the probe
\* returned 200 with a sha, and the write is attempted after every probe,
\* whatever its outcome.
C8_WriteAfterEveryProbe ==
    /\ ShaFollowsProbe
    /\ \A i \in CallsTo("probe") : GoesOnWith(i, "put")

\* C8 amended: the write request carries a sha exactly when the probe returned
\* 200 with a sha, and the write is attempted after every probe that returned a
\* response, of any status, with a readable body when the status is 200.
C8_WriteAfterAnsweredProbe ==
    /\ ShaFollowsProbe
    /\ \A i \in CallsTo("probe") :
          (resps[i].kind = "response" /\ (Status(i, 200) => Readable(i)))
          => GoesOnWith(i, "put")

\* a write that updates the file the probe found
C8_Witness ==
    \E i \in CallsTo("put") :
        /\ "sha" \in DOMAIN calls[i].json
        /\ calls[i].json.sha = "existing_file_sha"

-----------------------------------------------------------------------------
(* C9 *)

\* C9: when the repository-metadata call returns a status other than 200,
\* publish returns status=error with a message containing "Failed to fetch repo
\* info" and the status code, with the response text as details, and issues no
\* later hosting call.
C9_RepoFailureStopsTheCall ==
    \A i \in CallsTo("repo") :
        (resps[i].kind = "response" /\ ~Status(i, 200))
        => /\ Returned
           /\ result.status = "error"
           /\ Contains(result.message, <<"Failed", "to", "fetch", "repo", "info">>)
           /\ Contains(result.message, <<StatusStr(resps[i].status_code)>>)
           /\ result.details = resps[i].text
           /\ Len(calls) = i

\* the repository is not found
C9_Witness ==
    /\ Returned
    /\ Endpoints = <<"repo">>
    /\ Status(1, 404)
    /\ result.details = NotFoundText

-----------------------------------------------------------------------------
(* C10 *)

\* C10: no exception escapes publish_blog_to_github: whatever fails, and
\* whatever arguments of the tool-call surface it is called with, the call
\* returns a result with a status and a message.
C10_NoExceptionEscapes ==
    /\ pc # "raised"
    /\ Returned => /\ result.status \in {"success", "error"}
                   /\ result.message # AbsentW

-----------------------------------------------------------------------------
(* C11 *)

\* the repository a publish call is to address: the request's repo_owner and
\* repo_name when it supplies them, the configured ones otherwise
Target ==
    <<IF req.repo_owner # Absent THEN req.repo_owner ELSE GetRepoConfig(env).owner,
      IF req.repo_name # Absent THEN req.repo_name ELSE GetRepoConfig(env).repo>>

\* C11: a publish call that supplies repo_owner and repo_name is carried out
\* with them, and every hosting call of a publish call addresses
\* /repos/<owner>/<name> of the supplied, else the configured, owner and name.
C11_RequestOverridesConfiguration ==
    /\ req.repo_owner # Absent => pc # "raised"
    /\ \A i \in DOMAIN calls :
          SubSeq(calls[i].url, 1, 4) = GITHUB_API_URL \o <<"repos">> \o Target

-----------------------------------------------------------------------------
(* C12 *)

\* C12: every result publish returns has status "success" or "error"; a
\* success result has the keys pr_url, branch and file_path, with branch the
\* request's branch_name and file_path the configured content path joined with
\* file_name; an error result has a message and no pr_url key.
C12_TaggedOutcome ==
    Returned =>
        /\ result.status \in {"success", "error"}
        /\ result.status = "success" =>
              /\ result.pr_url # Absent
              /\ result.branch = req.branch_name
              /\ result.file_path = GetRepoConfig(env).content_path \o <<req.file_name>>
        /\ result.status = "error" =>
              /\ result.message \notin {AbsentW, NoneW, <<>>}
              /\ result.pr_url = Absent
              /\ result.branch = Absent
              /\ result.file_path = AbsentW

\* a success under a configured content path
C12_Witness ==
    /\ Returned
    /\ result.status = "success"
    /\ result.branch = "blog/test"
    /\ result.file_path = <<"content", "posts", "test.md">>

-----------------------------------------------------------------------------
(* C13 *)

\* BLOG_REPO_OWNER, BLOG_REPO_NAME and BLOG_CONTENT_PATH are unset
NoRepoConfiguration == env.owner = Absent /\ env.repo = Absent /\ env.path = AbsentW

\* the publish call returned after six hosting calls that all returned their
\* success status
AllSucceeded ==
    /\ Returned
    /\ Len(calls) = 6
    /\ \A i \in DOMAIN calls : SuccessOnFirstAttempt(i)

\* C13: with no owner, repository and path configured every hosting call
\* addresses /repos/queryplanner/blogs, the probe and the write address
\* contents/src/data/blog/<file_name>, and a run in which every call succeeds
\* returns status=success with branch = branch_name and
\* file_path = src/data/blog/<file_name>.
C13_DefaultConfiguration ==
    NoRepoConfiguration =>
        /\ \A i \in DOMAIN calls :
              SubSeq(calls[i].url, 1, 4)
                  = <<"https://api.github.com", "repos", "queryplanner", "blogs">>
        /\ \A i \in CallsTo("probe") \cup CallsTo("put") :
              calls[i].url = <<"https://api.github.com", "repos", "queryplanner", "blogs",
                               "contents", "src", "data", "blog", req.file_name>>
        /\ AllSucceeded =>
              /\ result.status = "success"
              /\ result.branch = req.branch_name
              /\ result.file_path = <<"src", "data", "blog", req.file_name>>

\* an all-success run under the defaults
C13_Witness ==
    /\ NoRepoConfiguration
    /\ AllSucceeded
    /\ calls[5].url = <<"https://api.github.com", "repos", "queryplanner", "blogs",
                        "contents", "src", "data", "blog", "test.md">>
    /\ result.file_path = <<"src", "data", "blog", "test.md">>

-----------------------------------------------------------------------------
(* C14 *)

\* C14: a save call that succeeds appends the given content, unchanged, as the
\* newest version of the artifact, writes the given title and slug into the
\* session state and returns status=success with them; a save call that fails
\* returns status=error with a message containing "Failed to save blog
\* content" and the cause, raises nothing, and leaves the session state and
\* the artifact as they were.
C14_SaveStoresOrReports ==
    [][ saves' = saves + 1 =>
          /\ pc' = "idle"
          /\ result'.tool = "save"
          /\ result'.status \in {"success", "error"}
          /\ result'.status = "success" =>
                /\ artifacts' = Append(artifacts, Part(args'.content))
                /\ LoadArtifact(artifacts').text = args'.content
                /\ state' = [title |-> args'.title, slug |-> args'.slug]
                /\ result'.title = args'.title
                /\ result'.slug = args'.slug
          /\ result'.status = "error" =>
                /\ Contains(result'.message, <<"Failed", "to", "save", "blog", "content">>)
                /\ Contains(result'.message, <<"Artifact", "service", "down">>)
                /\ state' = state
                /\ artifacts' = artifacts
      ]_vars

\* a save that fails after a save of another title and slug succeeded
C14_Witness ==
    /\ result.tool = "save"
    /\ result.status = "error"
    /\ state.title \notin {Absent, args.title}
    /\ state.slug \notin {Absent, args.slug}
    /\ artifacts # <<>>

-----------------------------------------------------------------------------
(* C15 *)

\* C15: no step of a publish call, from the call to its return, successful or
\* failed, changes the artifact store (the versions and their content) or the
\* title and slug of the session state.
C15_PublishOnlyReads ==
    [][ (publishes' # publishes \/ ~NoCallInFlight)
        => /\ artifacts' = artifacts
           /\ state' = state ]_vars

\* a publish call has returned and the saved post is there
C15_Witness ==
    /\ Returned
    /\ Len(calls) >= 5
    /\ artifacts # <<>>
    /\ LoadArtifact(artifacts).text = <<35, 10, 233, 8364, 128512>>
    /\ state.title = "My First Blog"

-----------------------------------------------------------------------------
(* C16 *)

\* the steps of a publish call and the method of each step's request
StepOrder == <<"repo", "ref", "create_ref", "probe", "put", "create_pr", "list_prs">>
StepMethods == <<"GET", "GET", "POST", "GET", "PUT", "POST", "GET">>

\* the answer to call i lets the publish call go on to the next step: the step
\* succeeded, or the conflict it met counts as satisfied; the probe lets it go
\* on with whatever status it returned
Passed(i) ==
    LET ep == calls[i].ep
    IN  CASE ep = "repo" -> Status(i, 200) /\ Readable(i)
          [] ep = "ref" ->
                 /\ Status(i, 200) /\ Readable(i)
                 /\ ~Falsy(DictGet(DictGet(resps[i].json, "object", EmptyDict), "sha", None))
          [] ep = "create_ref" -> Status(i, 201) \/ Conflict(i, <<"already", "exists">>)
          [] ep = "probe" -> resps[i].kind = "response" /\ (Status(i, 200) => Readable(i))
          [] ep = "put" -> Status(i, 200) \/ Status(i, 201)
          [] ep = "create_pr" ->
                 Conflict(i, <<"A", "pull", "request", "already", "exists">>)
          [] OTHER -> FALSE

\* C16: the hosting calls of a publish call are, in this order, the repository
\* GET, the base ref GET, the ref-create POST, the file probe GET, the file
\* write PUT, the PR-create POST and the PR-list GET, each issued only after
\* every earlier step passed; the PR-create call is issued only after the file
\* write returned 200 or 201.
C16_StepsInOrder ==
    /\ Len(calls) <= Len(StepOrder)
    /\ \A i \in DOMAIN calls :
          /\ calls[i].ep = StepOrder[i]
          /\ calls[i].method = StepMethods[i]
          /\ i < Len(calls) => Passed(i)
    /\ \A i \in CallsTo("create_pr") :
          i > 1 /\ calls[i - 1].ep = "put" /\ (Status(i - 1, 200) \/ Status(i - 1, 201))

\* all seven calls have been issued
C16_Witness ==
    /\ Returned
    /\ Endpoints = StepOrder

-----------------------------------------------------------------------------
(* C17 *)

\* no endpoint has been called twice by the publish call in flight
NoRetry ==
    /\ \A ep \in Range(StepOrder) : Cardinality(CallsTo(ep)) <= 1
    /\ Len(calls) <= 7

\* how far the publish call in flight has come: the number of its step
Rank(p) ==
    CASE p = "load" -> 0
      [] p \in Range(StepOrder) -> CHOOSE n \in DOMAIN StepOrder : StepOrder[n] = p
      [] OTHER -> Len(StepOrder) + 1

\* C17: a publish call calls each of the seven hosting endpoints at most once,
\* so issues at most seven calls and never re-issues a failed step; it always
\* comes to a result: while it is in flight it is at the artifact load or at
\* one of the seven requests, and every step either returns or takes it to a
\* later one.
C17_NoRetryAndReturns ==
    /\ []NoRetry
    /\ [](~NoCallInFlight => pc \in {"load"} \cup Range(StepOrder))
    /\ [][ ~NoCallInFlight => /\ Step
                              /\ Returned' \/ Rank(pc') > Rank(pc) ]_vars

\* a publish call returned an error after a failed file write
C17_Witness ==
    /\ Returned
    /\ result.status = "error"
    /\ Len(calls) = 5
    /\ calls[5].ep = "put"
    /\ Status(5, 409)

-----------------------------------------------------------------------------
(* C18 *)

\* what call i created on the hosting service is in place: the branch of a
\* ref-create answered 201, the file and content of a write answered 200 or
\* 201, the pull request of a PR-create answered 201
EffectInPlace(i) ==
    LET h == host[Repo]
        ep == calls[i].ep
    IN  /\ (ep = "create_ref" /\ Status(i, 201))
           => calls[i].json.ref[3] \in Range(h.branches)
        /\ (ep = "put" /\ (Status(i, 200) \/ Status(i, 201)))
           => \E f \in FilesAt(h, calls[i].json.branch, loc.full_file_path) :
                 f.content = calls[i].json.content
        /\ (ep = "create_pr" /\ Status(i, 201))
           => OpenPrs(h, calls[i].json.head) # <<>>

\* C18: publish issues no call but GETs, POSTs and PUTs of its seven
\* endpoints, and at every point of a publish call, its return with an error
\* included, what its earlier calls created on the hosting service is in place.
C18_NoRollback ==
    /\ \A i \in DOMAIN calls :
          /\ calls[i].method \in {"GET", "POST", "PUT"}
          /\ calls[i].ep \in Range(StepOrder)
    /\ reliable => \A i \in DOMAIN calls : EffectInPlace(i)

\* the pull request failed after the file was written, and the file is there
C18_Witness ==
    /\ reliable
    /\ Returned
    /\ result.status = "error"
    /\ Contains(result.message, <<"Failed", "to", "create", "PR">>)
    /\ \E i \in CallsTo("put") : Status(i, 201)
    /\ FilesAt(host[Repo], req.branch_name, loc.full_file_path) # {}

-----------------------------------------------------------------------------
(* C19 *)

\* the sha of the object in the answer to call i, None when there is none
ObjectSha(i) == DictGet(DictGet(resps[i].json, "object", EmptyDict), "sha", None)

\* the publish call returned an error about call i, the last it issued
StoppedAt(i, words) ==
    /\ Returned
    /\ result.status = "error"
    /\ Contains(result.message, words)
    /\ Len(calls) = i

\* C19: when the base-ref lookup returns a status other than 200 publish
\* returns status=error with a message containing "Failed to get branch ref";
\* when it returns 200 with an object sha that is absent or empty publish
\* returns status=error with a message containing "Could not get base SHA";
\* in both cases the lookup is the last call issued.
C19_BaseRefFailureStopsTheCall ==
    \A i \in CallsTo("ref") :
        /\ (resps[i].kind = "response" /\ ~Status(i, 200))
           => StoppedAt(i, <<"Failed", "to", "get", "branch", "ref">>)
        /\ (Status(i, 200) /\ Readable(i) /\ Falsy(ObjectSha(i)))
           => StoppedAt(i, <<"Could", "not", "get", "base", "SHA">>)

\* the lookup returned 200 with an empty sha
C19_Witness ==
    /\ Returned
    /\ Endpoints = <<"repo", "ref">>
    /\ Status(2, 200)
    /\ ObjectSha(2) = ""
    /\ Contains(result.message, <<"Could", "not", "get", "base", "SHA">>)

-----------------------------------------------------------------------------
(* C20 *)

\* C20: the ref-create call is a POST to {base_url}/git/refs asking for ref
\* refs/heads/<branch_name> at the sha the base-ref lookup returned; a later
\* call is issued only when it returned 201, or 422 with a text containing
\* "already exists"; for every other response publish returns status=error
\* with a message containing "Failed to create branch" and issues no probe,
\* write or PR call.
C20_BranchCreateGatesTheRest ==
    \A i \in CallsTo("create_ref") :
        /\ i > 1 /\ calls[i - 1].ep = "ref"
        /\ calls[i].method = "POST"
        /\ calls[i].url = GITHUB_API_URL
                            \o <<"repos", GetRepoConfig(env).owner,
                                 GetRepoConfig(env).repo, "git", "refs">>
        /\ calls[i].json = [ref |-> <<"refs", "heads", req.branch_name>>,
                            sha |-> ObjectSha(i - 1)]
        /\ Len(calls) > i
           => (Status(i, 201) \/ Conflict(i, <<"already", "exists">>))
        /\ ( /\ resps[i].kind = "response"
             /\ ~Status(i, 201)
             /\ ~Conflict(i, <<"already", "exists">>) )
           => StoppedAt(i, <<"Failed", "to", "create", "branch">>)

\* a 422 whose text does not say that the ref exists
C20_Witness ==
    /\ Returned
    /\ Endpoints = <<"repo", "ref", "create_ref">>
    /\ Status(3, 422)
    /\ resps[3].text = ValidationText
    /\ Contains(result.message, <<"Failed", "to", "create", "branch", ":", "422">>)

-----------------------------------------------------------------------------
(* C21 *)

\* C21: when the file-write call returns a status other than 200 and 201,
\* publish returns status=error with a message containing "Failed to create
\* file" and the response text as details, and issues no PR-create call.
C21_WriteFailureStopsTheCall ==
    \A i \in CallsTo("put") :
        (resps[i].kind = "response" /\ ~Status(i, 200) /\ ~Status(i, 201))
        => /\ StoppedAt(i, <<"Failed", "to", "create", "file">>)
           /\ Contains(result.message, <<StatusStr(resps[i].status_code)>>)
           /\ result.details = resps[i].text
           /\ CallsTo("create_pr") = {}

\* the write met a conflict
C21_Witness ==
    /\ Returned
    /\ Endpoints = <<"repo", "ref", "create_ref", "probe", "put">>
    /\ Status(5, 409)
    /\ result.details = <<"Conflict">>

-----------------------------------------------------------------------------
(* C22 *)

\* the PR-create call was answered 422 "A pull request already exists"
PrConflict(i) == Conflict(i, <<"A", "pull", "request", "already", "exists">>)

\* C22: when the PR-create call returns anything other than 201 or a 422
\* whose body contains "A pull request already exists", publish returns
\* status=error with a message containing "Failed to create PR" (and the
\* response text as details) and issues no PR-list lookup; the PR-list
\* lookup is issued only after that 422 conflict.
C22_PrCreateFailureStopsTheCall ==
    /\ \A i \in CallsTo("create_pr") :
           (resps[i].kind = "response" /\ ~Status(i, 201) /\ ~PrConflict(i))
           => /\ StoppedAt(i, <<"Failed", "to", "create", "PR">>)
              /\ result.details = resps[i].text
              /\ CallsTo("list_prs") = {}
    /\ \A j \in CallsTo("list_prs") :
           j > 1 /\ calls[j - 1].ep = "create_pr" /\ PrConflict(j - 1)
    /\ (pc = "list_prs")
           => calls # <<>> /\ calls[Len(calls)].ep = "create_pr"
              /\ PrConflict(Len(calls))

\* the PR-create call was rejected with a 422 that is not the conflict
C22_Witness ==
    /\ Returned
    /\ Endpoints = <<"repo", "ref", "create_ref", "probe", "put", "create_pr">>
    /\ Status(6, 422)
    /\ ~PrConflict(6)

-----------------------------------------------------------------------------
(* C23 *)

\* the i-th hosting call failed at transport level: requests raised a
\* RequestException (ConnectionError and Timeout are subclasses)
TransportFailure(i) == resps[i] = Raised("RequestException")

\* the i-th hosting call was answered with a status outside 2xx
Non2xx(i) == resps[i].kind = "response" /\ resps[i].status_code \notin 200..299

\* C23: a transport-level failure (connection error or exceeding the
\* per-call timeout) at any hosting call makes publish return status=error
\* with a message containing "Network error", a message no non-2xx response
\* produces, and no further hosting call is issued after the failing one;
\* every hosting call carries the per-call timeout.
C23_TransportFailureIsNetworkError ==
    /\ \A i \in DOMAIN calls :
           /\ calls[i].timeout = 30
           /\ TransportFailure(i)
              => /\ StoppedAt(i, <<"Network", "error">>)
                 /\ result.details = ExcText("RequestException")
    /\ (Returned /\ calls # <<>> /\ Non2xx(Len(calls)))
           => /\ result.status = "error"
              /\ ~Contains(result.message, <<"Network", "error">>)

\* the connection failed at the file write, after four answered calls
C23_Witness ==
    /\ Returned
    /\ Endpoints = <<"repo", "ref", "create_ref", "probe", "put">>
    /\ TransportFailure(5)
    /\ \A i \in 1..4 : resps[i].kind = "response"

-----------------------------------------------------------------------------
(* C24 *)

\* the branch whose ref the i-th call looks up: the last segment of
\* {base_url}/git/ref/heads/{default_branch}
LookedUpBranch(i) == calls[i].url[Len(calls[i].url)]

\* the answer of the repository-metadata call of this invocation names the
\* default branch
RepoAnswerNames(b) ==
    /\ calls # <<>>
    /\ calls[1].ep = "repo"
    /\ resps[1].kind = "response"
    /\ "default_branch" \in DOMAIN resps[1].json
    /\ resps[1].json["default_branch"] = b

\* the answer of the repository-metadata call carries no default_branch
RepoAnswerNamesNothing ==
    /\ calls # <<>>
    /\ calls[1].ep = "repo"
    /\ resps[1].kind = "response"
    /\ "default_branch" \notin DOMAIN resps[1].json

-----------------------------------------------------------------------------
(* C25 *)

\* the i-th hosting call is addressed and authorized with the values that
\* the environment e holds
UsesConfiguration(i, e) ==
    LET cfg == GetRepoConfig(e)
        base == GITHUB_API_URL \o <<"repos", cfg.owner, cfg.repo>>
    IN  /\ Len(calls[i].url) >= Len(base)
        /\ SubSeq(calls[i].url, 1, Len(base)) = base
        /\ calls[i].Authorization = GetEnv(e, "token", None)
        /\ calls[i].ep \in {"probe", "put"}
           => calls[i].url = base \o <<"contents">> \o cfg.content_path
                                  \o <<req.file_name>>
        /\ calls[i].ep = "list_prs"
           => calls[i].params.head = <<cfg.owner, req.branch_name>>

\* C25: configuration is read at call time and not cached: whatever owner,
\* repository name, content path and token earlier invocations ran with,
\* every hosting call of an invocation uses the values the environment holds
\* when it is called, and an invocation called without a token issues none.
C25_ConfigurationReadAtCallTime ==
    /\ \A i \in DOMAIN calls : UsesConfiguration(i, env)
    /\ (pc # "idle" /\ TokenMissing) => calls = <<>>

\* a file written under a new owner, repository, path and token after an
\* earlier invocation succeeded under other values
C25_Witness ==
    /\ CallsTo("put") # {}
    /\ \E s \in published :
           /\ s.env.token # env.token
           /\ GetRepoConfig(s.env).owner # GetRepoConfig(env).owner
           /\ GetRepoConfig(s.env).repo # GetRepoConfig(env).repo
           /\ GetRepoConfig(s.env).content_path # GetRepoConfig(env).content_path
           /\ s.path # calls[Len(calls)].url

-----------------------------------------------------------------------------
(* C26 *)

\* C26: within one run of the pipeline the two stages run strictly in
\* sequence: a publish_blog_to_github call starts only while the publisher
\* is running, which starts only when the writer has ended; the writer calls
\* only save_blog_content and the publisher only publish_blog_to_github; no
\* hosting call is issued, and none is in flight, while the writer runs.
C26_StagesInSequence ==
    /\ [](running = "blog_writer"
              => publishes = 0 /\ calls = <<>> /\ pc = "idle")
    /\ [](publishes > 0 => running \in {"blog_publisher", "over"})
    /\ [][/\ publishes' # publishes
             => running = "blog_publisher" /\ running' = running
          /\ saves' # saves
             => running = "blog_writer" /\ running' = running
          /\ (calls' # calls /\ calls' # <<>>)
             => running = "blog_publisher" /\ running' = running
          /\ running' # running
             => /\ NoCallInFlight
                /\ \/ running = "blog_writer" /\ running' = "blog_publisher"
                   \/ running = "blog_publisher" /\ running' = "over"]_vars

\* the publisher is writing the file that the writer saved before it ended
C26_Witness ==
    /\ running = "blog_publisher"
    /\ saves > 0
    /\ artifacts # <<>>
    /\ pc = "create_pr"
    /\ CallsTo("put") # {}

-----------------------------------------------------------------------------
(* C27 *)

\* the step is a save_blog_content call that returned success
SavedNow == saves' # saves /\ result'.status = "success"

\* C27: after any sequence of successful save_blog_content calls in a
\* session, a following publish_blog_to_github writes the content of the
\* most recent successful save, never an earlier version, and the session
\* state holds the title and slug of that save: each successful save puts
\* its content last in the store and its title and slug in the state, no
\* other step touches either, and every file write carries the text that is
\* last in the store.
C27_PublishWritesLatestSave ==
    /\ [][SavedNow => /\ artifacts' # <<>>
                      /\ artifacts'[Len(artifacts')].text = args'.content
                      /\ state'.title = args'.title
                      /\ state'.slug = args'.slug]_vars
    /\ [][~SavedNow => artifacts' = artifacts /\ state' = state]_vars
    /\ [](\A i \in CallsTo("put") :
              /\ artifacts # <<>>
              /\ DecodeContent(calls[i].json.content)
                     = artifacts[Len(artifacts)].text)

\* two saves of different texts and posts, then a publish that wrote the
\* second text
C27_Witness ==
    /\ Len(artifacts) = 2
    /\ artifacts[1].text # artifacts[2].text
    /\ artifacts[2].text = <<35, 10, 233, 8364, 128512>>
    /\ state = [title |-> "My First Blog", slug |-> "my-first-blog"]
    /\ CallsTo("put") # {}
    /\ \A i \in CallsTo("put") :
           DecodeContent(calls[i].json.content) = artifacts[2].text

-----------------------------------------------------------------------------
(* C28 *)

\* the call in flight has read nothing from the environment: the locals that
\* _get_repo_config and _get_github_headers fill are still unset
EnvironmentNotRead ==
    /\ loc.repo_owner = None
    /\ loc.repo_name = None
    /\ loc.content_path = <<>>
    /\ loc.full_file_path = <<>>
    /\ loc.Authorization = None

\* C28: the artifact is checked first and the token second: when the
\* artifact is absent and the authorization token is missing, the publish
\* call returns the "No blog content found" error, not the token error, and
\* has not read the environment at all.
C28_ArtifactCheckedBeforeToken ==
    (Returned /\ loc.load = "returned" /\ artifacts = <<>> /\ TokenMissing)
    => /\ result.status = "error"
       /\ Contains(result.message, <<"No", "blog", "content", "found">>)
       /\ ~TokenError
       /\ ~Contains(result.message, <<"BLOG_GITHUB_TOKEN">>)
       /\ EnvironmentNotRead
       /\ calls = <<>>

\* a publish call returned with nothing saved and no token set
C28_Witness ==
    /\ Returned
    /\ loc.load = "returned"
    /\ artifacts = <<>>
    /\ env.token = Absent
    /\ result.status = "error"

-----------------------------------------------------------------------------
(* C29 *)

\* the publish call returned the missing-content error
MissingContentReported ==
    /\ Returned
    /\ result.status = "error"
    /\ Contains(result.message, <<"No", "blog", "content", "found">>)

\* load_artifact handed the publish call a part whose text is the empty string
EmptyTextLoaded == loc.load = "returned" /\ loc.artifact = Part(<<>>)

\* C29: publish_blog_to_github reports missing content exactly when
\* load_artifact returns no artifact or an artifact whose text is None; an
\* artifact whose text is the empty string is not treated as missing: with a
\* token configured the call goes on to the hosting calls, and the file it
\* writes is empty.
C29_MissingContentExactlyWhenNone ==
    /\ (pc \notin {"idle", "load", "raised"} /\ loc.load = "returned")
       => (MissingContentReported
               <=> (loc.artifact.is_none \/ loc.artifact.text_is_none))
    /\ MissingContentReported => loc.load = "returned"
    /\ (EmptyTextLoaded /\ ~TokenMissing) => (pc = "repo" \/ calls # <<>>)
    /\ EmptyTextLoaded
       => \A i \in CallsTo("put") : calls[i].json.content = <<>>

\* an empty text was saved, published and written as an empty file
C29_Witness ==
    /\ Returned
    /\ EmptyTextLoaded
    /\ result.status = "success"
    /\ \E i \in CallsTo("put") : calls[i].json.content = <<>> /\ Status(i, 201)

-----------------------------------------------------------------------------
(* C30 *)

\* the i-th call addresses the git refs of the repository
AddressesRefs(i) ==
    /\ Len(calls[i].url) >= 6
    /\ SubSeq(calls[i].url, 5, 6) = <<"git", "refs">>

\* the files the hosting service holds on a branch, outside one path
OtherFilesOn(h, branch, path) ==
    { f \in h.files : f.branch = branch /\ f.path # path }

\* C30: publish never moves an existing branch: once the ref-create call
\* has reported that branch_name already exists, the call issues nothing
\* that updates or re-points a ref (no second request to git/refs, no PATCH
\* or DELETE), the branch and its other files stay as the service holds
\* them, and the file probe and the write are made against branch_name.
C30_ExistingBranchIsNotMoved ==
    /\ [](\A i \in CallsTo("create_ref") :
              Conflict(i, <<"already", "exists">>)
              => /\ \A j \in DOMAIN calls :
                        /\ calls[j].method \in {"GET", "POST", "PUT"}
                        /\ AddressesRefs(j) => j = i
                        /\ j > i => calls[j].ep \in {"probe", "put", "create_pr",
                                                     "list_prs"}
                 /\ \A j \in CallsTo("probe") :
                        j > i /\ calls[j].params.ref = req.branch_name
                 /\ \A j \in CallsTo("put") :
                        j > i /\ calls[j].json.branch = req.branch_name)
    /\ [][(reliable /\ BranchExisted /\ Step)
              => \A k \in RepoKeys :
                    /\ host'[k].branches = host[k].branches
                    /\ OtherFilesOn(host'[k], req.branch_name, loc.full_file_path)
                           = OtherFilesOn(host[k], req.branch_name,
                                          loc.full_file_path)]_vars

\* the branch existed, and the file on it was probed and updated in place
C30_Witness ==
    /\ Returned
    /\ BranchExisted
    /\ req.branch_name = "blog/test"
    /\ \E j \in CallsTo("probe") : Status(j, 200)
    /\ \E j \in CallsTo("put") :
           Status(j, 200) /\ calls[j].json.branch = "blog/test"

====
